---- MODULE Spec2Model ----
(***************************************************************************)
(* Q&A forum backend: vote sets and reputation, the follow graph and the   *)
(* featured answer of a question, as the Express handlers over the         *)
(* Mongoose models implement them.                                         *)
(*                                                                         *)
(* Every handler is a chain of steps, one per `await` of the handler: a    *)
(* step is what runs between two suspension points, and the database       *)
(* operation that resolves the await is atomic on the one document it      *)
(* touches.  Requests live in slots; a specification that uses one slot    *)
(* runs the requests one after the other, one that uses several overlaps   *)
(* them.  The socket server relays the notifications its clients send to   *)
(* the room of a question.                                                 *)
(***************************************************************************)
EXTENDS Integers, Sequences, FiniteSets, TLC

VARIABLES users, topics, questions, answers, nAnswers, reqs, budget,
          sockets, rooms, inbox, published

sock == <<sockets, rooms, inbox, published>>
vars == <<users, topics, questions, answers, nAnswers, reqs, budget, sock>>
db == <<users, topics, questions, answers, nAnswers>>

----------------------------------------------------------------------------
(* Bounds of the model *)

\* requests a run of the vote specification may start
MaxVoteReq == 3
\* requests a run of the follow specification may start
MaxFollowReq == 2
\* requests a run of the featured-answer specification may start
MaxFeatureReq == 3
\* answers that may ever be created (ids are never reused)
MaxAnswers == 3
\* notifications a run may relay through the socket server
MaxEvents == 2
\* request slots of a specification with overlapping requests
MaxConc == 2

----------------------------------------------------------------------------
(* The collections *)

Users == {"u1", "u2"}
Questions == {"q1", "q2"}
Topics == {"t1"}
AllAnswerIds == <<"a1", "a2", "a3", "a4", "a5", "a6">>
AnswerIds == {AllAnswerIds[i] : i \in 1..MaxAnswers}
\* an id that names no document of any collection
MissingId == "missing"

Slots == 1..MaxConc
SeqSlots == {1}

\* the clients that may hold a socket connection
Conns == {"c1", "c2"}

\* User.reputation of a user who has done nothing yet
InitialReputation == 0

\* the Answer schema: a new document has empty vote arrays and is not featured
answerSchema(q, author, isFeatured) ==
  [question |-> q, author |-> author, upvotes |-> <<>>, downvotes |-> <<>>,
   isFeatured |-> isFeatured, v |-> 0]

\* the Question schema: empty vote arrays, not answered, no featured answer
questionSchema(author) ==
  [author |-> author, upvotes |-> <<>>, downvotes |-> <<>>,
   isAnswered |-> FALSE, featuredAnswer |-> MissingId, v |-> 0]

NoDoc == [found |-> FALSE]
NoBody == [content |-> "text"]
NoUser == [id |-> MissingId, role |-> "user", following |-> {}, followingTopics |-> {}]

Idle ==
  [pc |-> "idle", op |-> "none", me |-> NoUser, target |-> MissingId,
   body |-> NoBody, doc |-> NoDoc, status |-> 0,
   pre |-> [users |-> users, questions |-> questions, answers |-> answers,
            topics |-> topics]]

Free(r) == reqs[r].pc \in {"idle", "done"}
Quiescent == \A r \in Slots : Free(r)

\* authController.protect: req.user is the caller's document as it is when
\* the request arrives
protect(u) ==
  [id |-> u, role |-> users[u].role, following |-> users[u].following,
   followingTopics |-> users[u].followingTopics]

\* a request arrives: protect has loaded req.user and the handler is at its
\* first await (slots have no identity: a request takes the first free one)
ArriveWith(r, op, u, target, body, pc, status) ==
  /\ Free(r)
  /\ \A r2 \in Slots : r2 < r => ~Free(r2)
  /\ budget > 0
  /\ budget' = budget - 1
  /\ reqs' = [reqs EXCEPT ![r] =
       [pc |-> pc, op |-> op, me |-> protect(u), target |-> target,
        body |-> body, doc |-> NoDoc, status |-> status,
        pre |-> [users |-> users, questions |-> questions,
                 answers |-> answers, topics |-> topics]]]
  /\ UNCHANGED sock

Arrive(r, op, u, target, body, pc) == ArriveWith(r, op, u, target, body, pc, 0)

\* the handler of slot r answers with `status` and ends
Respond(r, status) ==
  reqs' = [reqs EXCEPT ![r].pc = "done", ![r].status = status]

\* the handler of slot r goes on to its next await
Goto(r, pc) == reqs' = [reqs EXCEPT ![r].pc = pc]

At(r, op, pc) == reqs[r].op = op /\ reqs[r].pc = pc

\* catchAsync(handler): the promise the handler awaits rejects (the storage
\* fails, the request is cancelled); the rest of the handler does not run and
\* the error handler answers 500
catchAsync(r) ==
  /\ ~Free(r)
  /\ Respond(r, 500)
  /\ UNCHANGED <<db, budget, sock>>

\* User.findByIdAndUpdate(id, {$inc: {reputation: n}})
IncReputation(id, n) ==
  IF id \in Users
    THEN users' = [users EXCEPT ![id].reputation = @ + n]
    ELSE UNCHANGED users

----------------------------------------------------------------------------
(* Mongoose documents *)

\* Array.prototype.some(x => x.toString() === id.toString())
Some(arr, id) == \E i \in 1..Len(arr) : arr[i] = id

\* Array.prototype.filter(x => x.toString() !== id.toString())
Without(arr, id) == SelectSeq(arr, LAMBDA x : x # id)

IsPrefix(s, t) == Len(s) <= Len(t) /\ SubSeq(t, 1, Len(s)) = s

\* what document.save() sends for an array path: nothing when the path is
\* not modified, $push of the new tail after Array.push, $set of the whole
\* array after an assignment that changed it
ArrayOp(loaded, mutated, p) ==
  IF mutated[p] = loaded[p] THEN "none"
  ELSE IF IsPrefix(loaded[p], mutated[p]) THEN "push"
  ELSE "set"

ArrayPaths == {"upvotes", "downvotes"}

\* a $set of a whole array makes the update conditional on __v
Versioned(loaded, mutated) ==
  \E p \in ArrayPaths : ArrayOp(loaded, mutated, p) = "set"

\* document.save() succeeds when the document is still stored and, for a
\* versioned update, its __v is the one that was loaded
saveOk(coll, id, loaded, mutated) ==
  /\ id \in DOMAIN coll
  /\ Versioned(loaded, mutated) => coll[id].v = loaded.v

\* the stored document after document.save() of `mutated`, loaded as `loaded`
save(cur, loaded, mutated) ==
  [f \in DOMAIN cur |->
     IF f \in ArrayPaths
       THEN CASE ArrayOp(loaded, mutated, f) = "none" -> cur[f]
              [] ArrayOp(loaded, mutated, f) = "push" ->
                   cur[f] \o SubSeq(mutated[f], Len(loaded[f]) + 1, Len(mutated[f]))
              [] OTHER -> mutated[f]
     ELSE IF f = "v"
       THEN IF \E p \in ArrayPaths : ArrayOp(loaded, mutated, p) # "none"
              THEN cur.v + 1 ELSE cur.v
     ELSE IF mutated[f] # loaded[f] THEN mutated[f] ELSE cur[f]]

\* answerSchema.post('save'): every save of an answer credits its author
answerSaveReputation == 5
answerPostSave(doc) == IncReputation(doc.author, answerSaveReputation)

----------------------------------------------------------------------------
(* Votes on questions and answers *)

upvoteQuestionInc == 10
downvoteQuestionInc == -2
upvoteAnswerInc == 15
downvoteAnswerInc == -5

upvoteQuestionConflict(question, me) == Some(question.upvotes, me.id)
upvoteQuestionMutate_KeepDownvote(question, me) ==
  [question EXCEPT !.upvotes = Append(@, me.id)]
upvoteQuestionMutate(question, me) ==
  [question EXCEPT !.downvotes = Without(@, me.id),
                   !.upvotes = Append(@, me.id)]

downvoteQuestionConflict(question, me) == Some(question.downvotes, me.id)
downvoteQuestionMutate(question, me) ==
  [question EXCEPT !.upvotes = Without(@, me.id),
                   !.downvotes = Append(@, me.id)]

upvoteAnswerConflict_WrongSet(answer, me) == Some(answer.downvotes, me.id)
upvoteAnswerConflict(answer, me) == Some(answer.upvotes, me.id)
upvoteAnswerMutate(answer, me) ==
  [answer EXCEPT !.downvotes = Without(@, me.id),
                 !.upvotes = Append(@, me.id)]

downvoteAnswerConflict(answer, me) == Some(answer.downvotes, me.id)
downvoteAnswerMutate(answer, me) ==
  [answer EXCEPT !.upvotes = Without(@, me.id),
                 !.downvotes = Append(@, me.id)]

VoteOps == {"upvoteQuestion", "downvoteQuestion", "upvoteAnswer", "downvoteAnswer"}
IsQuestionOp(op) == op \in {"upvoteQuestion", "downvoteQuestion"}
IsUpvote(op) == op \in {"upvoteQuestion", "upvoteAnswer"}

VoteConflict(op, doc, me) ==
  CASE op = "upvoteQuestion" -> upvoteQuestionConflict(doc, me)
    [] op = "downvoteQuestion" -> downvoteQuestionConflict(doc, me)
    [] op = "upvoteAnswer" -> upvoteAnswerConflict(doc, me)
    [] op = "downvoteAnswer" -> downvoteAnswerConflict(doc, me)

VoteMutate(op, doc, me) ==
  CASE op = "upvoteQuestion" -> upvoteQuestionMutate(doc, me)
    [] op = "downvoteQuestion" -> downvoteQuestionMutate(doc, me)
    [] op = "upvoteAnswer" -> upvoteAnswerMutate(doc, me)
    [] op = "downvoteAnswer" -> downvoteAnswerMutate(doc, me)

VoteInc(op) ==
  CASE op = "upvoteQuestion" -> upvoteQuestionInc
    [] op = "downvoteQuestion" -> downvoteQuestionInc
    [] op = "upvoteAnswer" -> upvoteAnswerInc
    [] op = "downvoteAnswer" -> downvoteAnswerInc

\* the collection a vote handler works on
Votable(op) == IF IsQuestionOp(op) THEN questions ELSE answers

\* findById resolves; the handler checks the vote and calls save()
VoteFind(r) ==
  LET q == reqs[r]
      coll == Votable(q.op)
  IN /\ q.pc = "find"
     /\ UNCHANGED <<db, budget, sock>>
     /\ IF q.target \notin DOMAIN coll
          THEN Respond(r, 404)
          ELSE IF VoteConflict(q.op, coll[q.target], q.me)
            THEN Respond(r, 400)
            ELSE reqs' = [reqs EXCEPT ![r].doc = coll[q.target], ![r].pc = "save"]

\* save() resolves: the vote arrays are written, or the save is refused.
\* (questionSchema.post('save') then adds 1 to the author's questionsCount,
\* a path nothing here reads; the answer's hook is the next step.)
VoteSave(r) ==
  LET q == reqs[r]
      coll == Votable(q.op)
      mutated == VoteMutate(q.op, q.doc, q.me)
  IN /\ q.pc = "save"
     /\ UNCHANGED <<users, topics, nAnswers, budget, sock>>
     /\ IF ~saveOk(coll, q.target, q.doc, mutated)
          THEN Respond(r, 500) /\ UNCHANGED <<questions, answers>>
          ELSE /\ IF IsQuestionOp(q.op)
                    THEN /\ questions' = [questions EXCEPT ![q.target] =
                                            save(@, q.doc, mutated)]
                         /\ UNCHANGED answers
                         /\ Goto(r, "credit")
                    ELSE /\ answers' = [answers EXCEPT ![q.target] =
                                          save(@, q.doc, mutated)]
                         /\ UNCHANGED questions
                         /\ Goto(r, "hook")

\* the post('save') hook of the answer runs before save() returns
VoteHook(r) ==
  /\ reqs[r].pc = "hook"
  /\ answerPostSave(reqs[r].doc)
  /\ Goto(r, "credit")
  /\ UNCHANGED <<topics, questions, answers, nAnswers, budget, sock>>

\* User.findByIdAndUpdate(author, {$inc: {reputation}}) and the response
VoteCredit(r) ==
  /\ reqs[r].pc = "credit"
  /\ IncReputation(reqs[r].doc.author, VoteInc(reqs[r].op))
  /\ Respond(r, 200)
  /\ UNCHANGED <<topics, questions, answers, nAnswers, budget, sock>>

upvoteQuestion(r) ==
  \/ \E u \in Users, q \in Questions \cup {MissingId} :
       Arrive(r, "upvoteQuestion", u, q, NoBody, "find") /\ UNCHANGED db
  \/ reqs[r].op = "upvoteQuestion" /\ (VoteFind(r) \/ VoteSave(r) \/ VoteCredit(r))

downvoteQuestion(r) ==
  \/ \E u \in Users, q \in Questions \cup {MissingId} :
       Arrive(r, "downvoteQuestion", u, q, NoBody, "find") /\ UNCHANGED db
  \/ reqs[r].op = "downvoteQuestion" /\ (VoteFind(r) \/ VoteSave(r) \/ VoteCredit(r))

upvoteAnswer(r) ==
  \/ \E u \in Users, a \in AnswerIds :
       Arrive(r, "upvoteAnswer", u, a, NoBody, "find") /\ UNCHANGED db
  \/ reqs[r].op = "upvoteAnswer"
       /\ (VoteFind(r) \/ VoteSave(r) \/ VoteHook(r) \/ VoteCredit(r))

downvoteAnswer(r) ==
  \/ \E u \in Users, a \in AnswerIds :
       Arrive(r, "downvoteAnswer", u, a, NoBody, "find") /\ UNCHANGED db
  \/ reqs[r].op = "downvoteAnswer"
       /\ (VoteFind(r) \/ VoteSave(r) \/ VoteHook(r) \/ VoteCredit(r))

----------------------------------------------------------------------------
(* The follow graph *)

\* req.user.id === req.params.userId
followUserSelf_Never(me, userId) == FALSE
followUserSelf(me, userId) == me.id = userId
unfollowUserSelf(me, userId) == me.id = userId

\* req.user.following.includes(req.params.userId), on the req.user that
\* protect loaded
followUserConflict_Never(me, userId) == FALSE
followUserConflict(me, userId) == userId \in me.following
unfollowUserConflict(me, userId) == userId \notin me.following
followTopicConflict(me, topicId) == topicId \in me.followingTopics
unfollowTopicConflict(me, topicId) == topicId \notin me.followingTopics

\* $addToSet / $pull on a set-valued path
addToSet(set, x) == set \cup {x}
pull(set, x) == set \ {x}

followUser(r) ==
  LET q == reqs[r] IN
  \/ \E u \in Users, userId \in Users \cup {MissingId} :
       /\ IF followUserSelf(protect(u), userId)
            THEN ArriveWith(r, "followUser", u, userId, NoBody, "done", 400)
            ELSE Arrive(r, "followUser", u, userId, NoBody, "find")
       /\ UNCHANGED db
  \/ /\ At(r, "followUser", "find")
     /\ IF q.target \notin Users THEN Respond(r, 404)
        ELSE IF followUserConflict(q.me, q.target) THEN Respond(r, 400)
        ELSE Goto(r, "following")
     /\ UNCHANGED <<db, budget, sock>>
  \/ /\ At(r, "followUser", "following")
     /\ users' = [users EXCEPT ![q.me.id].following = addToSet(@, q.target)]
     /\ Goto(r, "followers")
     /\ UNCHANGED <<topics, questions, answers, nAnswers, budget, sock>>
  \/ /\ At(r, "followUser", "followers")
     /\ users' = [users EXCEPT ![q.target].followers = addToSet(@, q.me.id)]
     /\ Respond(r, 200)
     /\ UNCHANGED <<topics, questions, answers, nAnswers, budget, sock>>

unfollowUser(r) ==
  LET q == reqs[r] IN
  \/ \E u \in Users, userId \in Users \cup {MissingId} :
       /\ IF unfollowUserSelf(protect(u), userId)
            THEN ArriveWith(r, "unfollowUser", u, userId, NoBody, "done", 400)
            ELSE Arrive(r, "unfollowUser", u, userId, NoBody, "find")
       /\ UNCHANGED db
  \/ /\ At(r, "unfollowUser", "find")
     /\ IF q.target \notin Users THEN Respond(r, 404)
        ELSE IF unfollowUserConflict(q.me, q.target) THEN Respond(r, 400)
        ELSE Goto(r, "following")
     /\ UNCHANGED <<db, budget, sock>>
  \/ /\ At(r, "unfollowUser", "following")
     /\ users' = [users EXCEPT ![q.me.id].following = pull(@, q.target)]
     /\ Goto(r, "followers")
     /\ UNCHANGED <<topics, questions, answers, nAnswers, budget, sock>>
  \/ /\ At(r, "unfollowUser", "followers")
     /\ users' = [users EXCEPT ![q.target].followers = pull(@, q.me.id)]
     /\ Respond(r, 200)
     /\ UNCHANGED <<topics, questions, answers, nAnswers, budget, sock>>

followTopic(r) ==
  LET q == reqs[r] IN
  \/ \E u \in Users, topicId \in Topics \cup {MissingId} :
       Arrive(r, "followTopic", u, topicId, NoBody, "find") /\ UNCHANGED db
  \/ /\ At(r, "followTopic", "find")
     /\ IF q.target \notin Topics THEN Respond(r, 404)
        ELSE IF followTopicConflict(q.me, q.target) THEN Respond(r, 400)
        ELSE Goto(r, "following")
     /\ UNCHANGED <<db, budget, sock>>
  \/ /\ At(r, "followTopic", "following")
     /\ users' = [users EXCEPT ![q.me.id].followingTopics = addToSet(@, q.target)]
     /\ Goto(r, "followers")
     /\ UNCHANGED <<topics, questions, answers, nAnswers, budget, sock>>
  \/ /\ At(r, "followTopic", "followers")
     /\ topics' = [topics EXCEPT ![q.target].followers = addToSet(@, q.me.id)]
     /\ Respond(r, 200)
     /\ UNCHANGED <<users, questions, answers, nAnswers, budget, sock>>

unfollowTopic(r) ==
  LET q == reqs[r] IN
  \/ \E u \in Users, topicId \in Topics \cup {MissingId} :
       Arrive(r, "unfollowTopic", u, topicId, NoBody, "find") /\ UNCHANGED db
  \/ /\ At(r, "unfollowTopic", "find")
     /\ IF q.target \notin Topics THEN Respond(r, 404)
        ELSE IF unfollowTopicConflict(q.me, q.target) THEN Respond(r, 400)
        ELSE Goto(r, "following")
     /\ UNCHANGED <<db, budget, sock>>
  \/ /\ At(r, "unfollowTopic", "following")
     /\ users' = [users EXCEPT ![q.me.id].followingTopics = pull(@, q.target)]
     /\ Goto(r, "followers")
     /\ UNCHANGED <<topics, questions, answers, nAnswers, budget, sock>>
  \/ /\ At(r, "unfollowTopic", "followers")
     /\ topics' = [topics EXCEPT ![q.target].followers = pull(@, q.me.id)]
     /\ Respond(r, 200)
     /\ UNCHANGED <<users, questions, answers, nAnswers, budget, sock>>

----------------------------------------------------------------------------
(* Answers: create, update, delete, feature *)

featureAnswerInc == 50

\* the request bodies of createAnswer: the question, and any other path of
\* the schema the client cares to send
createAnswerBodies ==
  {[question |-> q] : q \in Questions \cup {MissingId}}
    \cup {[question |-> q, isFeatured |-> TRUE] : q \in Questions}

\* the request bodies of updateAnswer
updateAnswerBodies ==
  {[content |-> "text"], [isFeatured |-> TRUE], [isFeatured |-> FALSE],
   [question |-> "q2"], [upvotes |-> <<"u1">>]}

\* a document with the paths of `body` that the schema knows set to the
\* values of `body`
assign(doc, body) ==
  [f \in DOMAIN doc |-> IF f \in DOMAIN body THEN body[f] ELSE doc[f]]

\* createAnswer requests that have not inserted their answer yet
Creating ==
  {r \in Slots : reqs[r].op = "createAnswer" /\ reqs[r].pc \in {"find", "create"}}

createAnswer(r) ==
  LET q == reqs[r] IN
  \/ \E u \in Users, body \in createAnswerBodies :
       /\ nAnswers + Cardinality(Creating) < MaxAnswers
       /\ Arrive(r, "createAnswer", u, body.question, body, "find")
       /\ UNCHANGED db
  \/ /\ At(r, "createAnswer", "find")
     /\ IF q.body.question \notin DOMAIN questions THEN Respond(r, 404)
        ELSE Goto(r, "create")
     /\ UNCHANGED <<db, budget, sock>>
  \/ /\ At(r, "createAnswer", "create")
     /\ LET id == AllAnswerIds[nAnswers + 1]
            doc == assign(answerSchema(q.body.question, q.me.id, FALSE), q.body)
        IN /\ answers' = [a \in DOMAIN answers \cup {id} |->
                            IF a = id THEN doc ELSE answers[a]]
           /\ nAnswers' = nAnswers + 1
           /\ reqs' = [reqs EXCEPT ![r].pc = "hook", ![r].doc = doc, ![r].target = id]
     /\ UNCHANGED <<users, topics, questions, budget, sock>>
  \/ /\ At(r, "createAnswer", "hook")
     /\ answerPostSave(q.doc)
     /\ Respond(r, 201)
     /\ UNCHANGED <<topics, questions, answers, nAnswers, budget, sock>>

updateAnswer(r) ==
  LET q == reqs[r] IN
  \/ \E u \in Users, a \in AnswerIds, body \in updateAnswerBodies :
       Arrive(r, "updateAnswer", u, a, body, "find") /\ UNCHANGED db
  \/ /\ At(r, "updateAnswer", "find")
     /\ IF q.target \notin DOMAIN answers THEN Respond(r, 404)
        ELSE IF answers[q.target].author # q.me.id THEN Respond(r, 401)
        ELSE Goto(r, "update")
     /\ UNCHANGED <<db, budget, sock>>
  \/ /\ At(r, "updateAnswer", "update")
     /\ answers' = [a \in DOMAIN answers |->
                      IF a = q.target THEN assign(answers[a], q.body) ELSE answers[a]]
     /\ Respond(r, 200)
     /\ UNCHANGED <<users, topics, questions, nAnswers, budget, sock>>

deleteAnswer(r) ==
  LET q == reqs[r] IN
  \/ \E u \in Users, a \in AnswerIds :
       Arrive(r, "deleteAnswer", u, a, NoBody, "find") /\ UNCHANGED db
  \/ /\ At(r, "deleteAnswer", "find")
     /\ IF q.target \notin DOMAIN answers THEN Respond(r, 404)
        ELSE IF answers[q.target].author # q.me.id /\ q.me.role # "admin"
          THEN Respond(r, 401)
        ELSE Goto(r, "remove")
     /\ UNCHANGED <<db, budget, sock>>
  \/ /\ At(r, "deleteAnswer", "remove")
     /\ answers' = [a \in DOMAIN answers \ {q.target} |-> answers[a]]
     /\ Respond(r, 204)
     /\ UNCHANGED <<users, topics, questions, nAnswers, budget, sock>>

\* the request bodies of updateQuestion (a body with `topics` also looks the
\* topics up by name, which touches no path of the question kept here)
updateQuestionBodies ==
  {[content |-> "text"], [upvotes |-> <<"u2">>], [downvotes |-> <<>>],
   [featuredAnswer |-> "a1"]}

updateQuestion(r) ==
  LET q == reqs[r] IN
  \/ \E u \in Users, id \in Questions \cup {MissingId},
        body \in updateQuestionBodies :
       Arrive(r, "updateQuestion", u, id, body, "find") /\ UNCHANGED db
  \/ /\ At(r, "updateQuestion", "find")
     /\ IF q.target \notin DOMAIN questions THEN Respond(r, 404)
        ELSE IF questions[q.target].author # q.me.id THEN Respond(r, 401)
        ELSE Goto(r, "update")
     /\ UNCHANGED <<db, budget, sock>>
  \/ /\ At(r, "updateQuestion", "update")
     /\ questions' = [questions EXCEPT ![q.target] = assign(@, q.body)]
     /\ Respond(r, 200)
     /\ UNCHANGED <<users, topics, answers, nAnswers, budget, sock>>

\* the caller may feature an answer of a question they asked, or any answer
\* as an administrator
featureAnswerAuthorized_RoleInverted(question, me) ==
  ~(question.author # me.id /\ me.role = "admin")
featureAnswerAuthorized(question, me) ==
  ~(question.author # me.id /\ me.role # "admin")

\* Answer.updateMany({question, _id: {$ne: id}}, {isFeatured: false})
featureAnswerUnfeature_None(coll, question, id) == coll
featureAnswerUnfeature(coll, question, id) ==
  [a \in DOMAIN coll |->
     IF coll[a].question = question /\ a # id
       THEN [coll[a] EXCEPT !.isFeatured = FALSE]
       ELSE coll[a]]

featureAnswerMutate_Toggle(answer) == [answer EXCEPT !.isFeatured = ~@]

\* answer.isFeatured = true
featureAnswerMutate(answer) == [answer EXCEPT !.isFeatured = TRUE]

\* Question.findByIdAndUpdate(id, {featuredAnswer, isAnswered: true})
featureAnswerQuestion(question, id) ==
  [question EXCEPT !.featuredAnswer = id, !.isAnswered = TRUE]

featureAnswer(r) ==
  LET q == reqs[r] IN
  \/ \E u \in Users, a \in AnswerIds :
       Arrive(r, "featureAnswer", u, a, NoBody, "find") /\ UNCHANGED db
  \/ /\ At(r, "featureAnswer", "find")
     /\ IF q.target \notin DOMAIN answers THEN Respond(r, 404)
        ELSE IF answers[q.target].question \notin DOMAIN questions
          THEN Respond(r, 500)
        ELSE IF ~featureAnswerAuthorized(questions[answers[q.target].question], q.me)
          THEN Respond(r, 401)
        ELSE reqs' = [reqs EXCEPT ![r].doc = answers[q.target],
                                  ![r].pc = "unfeature"]
     /\ UNCHANGED <<db, budget, sock>>
  \/ /\ At(r, "featureAnswer", "unfeature")
     /\ answers' = featureAnswerUnfeature(answers, q.doc.question, q.target)
     /\ Goto(r, "save")
     /\ UNCHANGED <<users, topics, questions, nAnswers, budget, sock>>
  \/ /\ At(r, "featureAnswer", "save")
     /\ IF ~saveOk(answers, q.target, q.doc, featureAnswerMutate(q.doc))
          THEN Respond(r, 500) /\ UNCHANGED answers
          ELSE /\ answers' = [answers EXCEPT ![q.target] =
                                save(@, q.doc, featureAnswerMutate(q.doc))]
               /\ Goto(r, "hook")
     /\ UNCHANGED <<users, topics, questions, nAnswers, budget, sock>>
  \/ /\ At(r, "featureAnswer", "hook")
     /\ answerPostSave(q.doc)
     /\ Goto(r, "question")
     /\ UNCHANGED <<topics, questions, answers, nAnswers, budget, sock>>
  \/ /\ At(r, "featureAnswer", "question")
     /\ questions' = [questions EXCEPT ![q.doc.question] =
                        featureAnswerQuestion(@, q.target)]
     /\ Goto(r, "credit")
     /\ UNCHANGED <<users, topics, answers, nAnswers, budget, sock>>
  \/ /\ At(r, "featureAnswer", "credit")
     /\ users' = [users EXCEPT
                    ![q.doc.author].reputation = @ + featureAnswerInc,
                    ![q.doc.author].badges = addToSet(@, "featured-answer")]
     /\ Respond(r, 200)
     /\ UNCHANGED <<topics, questions, answers, nAnswers, budget, sock>>

----------------------------------------------------------------------------
(* The caller's profile, and reading a question *)

\* the request bodies of updateMe
updateMeBodies ==
  {[name |-> "text"], [password |-> "text"], [name |-> "text", reputation |-> 100]}

\* the paths updateMe copies from req.body
filteredBody(body) ==
  LET allowed == {"name", "email", "bio", "company", "jobTitle", "photo"}
  IN [f \in DOMAIN body \cap allowed |-> body[f]]

\* (the profile paths themselves are not kept here)
updateMe(r) ==
  LET q == reqs[r] IN
  \/ \E u \in Users, body \in updateMeBodies :
       /\ IF "password" \in DOMAIN body \/ "passwordConfirm" \in DOMAIN body
            THEN ArriveWith(r, "updateMe", u, u, body, "done", 400)
            ELSE Arrive(r, "updateMe", u, u, body, "update")
       /\ UNCHANGED db
  \/ /\ At(r, "updateMe", "update")
     /\ users' = [users EXCEPT ![q.me.id] = assign(@, filteredBody(q.body))]
     /\ Respond(r, 200)
     /\ UNCHANGED <<topics, questions, answers, nAnswers, budget, sock>>

\* getQuestion is not behind protect: there is no req.user.  It adds one to
\* the views of the question and saves it; the views, and the questionsCount
\* that questionSchema.post('save') then adds to the author, are paths that
\* are not kept here, and a save that changes no array leaves __v alone
getQuestion(r) ==
  LET q == reqs[r] IN
  \/ \E id \in Questions \cup {MissingId} :
       /\ Free(r)
       /\ \A r2 \in Slots : r2 < r => ~Free(r2)
       /\ budget > 0
       /\ budget' = budget - 1
       /\ reqs' = [reqs EXCEPT ![r] =
            [pc |-> "find", op |-> "getQuestion", me |-> NoUser, target |-> id,
             body |-> NoBody, doc |-> NoDoc, status |-> 0,
             pre |-> [users |-> users, questions |-> questions,
                      answers |-> answers, topics |-> topics]]]
       /\ UNCHANGED <<db, sock>>
  \/ /\ At(r, "getQuestion", "find")
     /\ IF q.target \notin DOMAIN questions THEN Respond(r, 404)
        ELSE reqs' = [reqs EXCEPT ![r].doc = questions[q.target], ![r].pc = "save"]
     /\ UNCHANGED <<db, budget, sock>>
  \/ /\ At(r, "getQuestion", "save")
     /\ questions' = [questions EXCEPT ![q.target] = save(@, q.doc, q.doc)]
     /\ Respond(r, 200)
     /\ UNCHANGED <<users, topics, answers, nAnswers, budget, sock>>

----------------------------------------------------------------------------
(* The socket server: a room per question id; a client asks the server to   *)
(* relay a notification to a room.  An event records, beside what is sent,  *)
(* the room it was sent to and the connection that asked for it.            *)

socketTo_Everyone(room, c) == sockets \ {c}

\* socket.to(room): the sockets of the room, the sending socket left out
socketTo(room, c) == {d \in sockets \ {c} : room \in rooms[d]}

\* socket.to(room).emit(name, payload)
emit(c, room, name, payload) ==
  /\ c \in sockets
  /\ Cardinality(published) < MaxEvents
  /\ LET ev == [id |-> Cardinality(published) + 1, name |-> name,
                room |-> room, from |-> c, payload |-> payload]
     IN /\ published' = published \cup {ev}
        /\ inbox' = [d \in Conns |->
             IF d \in socketTo(room, c) THEN inbox[d] \cup {ev} ELSE inbox[d]]
  /\ UNCHANGED <<sockets, rooms, db, reqs, budget>>

\* io.on('connection'): a client connects; its socket is in no question room
connection(c) ==
  /\ c \notin sockets
  /\ sockets' = sockets \cup {c}
  /\ UNCHANGED <<rooms, inbox, published, db, reqs, budget>>

\* socket.on('disconnect'): the socket is gone, and with it its rooms
disconnect(c) ==
  /\ c \in sockets
  /\ sockets' = sockets \ {c}
  /\ rooms' = [rooms EXCEPT ![c] = {}]
  /\ UNCHANGED <<inbox, published, db, reqs, budget>>

joinQuestion(c, questionId) ==
  /\ c \in sockets
  /\ rooms' = [rooms EXCEPT ![c] = @ \cup {questionId}]
  /\ UNCHANGED <<sockets, inbox, published, db, reqs, budget>>

leaveQuestion(c, questionId) ==
  /\ c \in sockets
  /\ rooms' = [rooms EXCEPT ![c] = @ \ {questionId}]
  /\ UNCHANGED <<sockets, inbox, published, db, reqs, budget>>

newAnswer(c, questionId, answer) ==
  emit(c, questionId, "answerAdded", [answerId |-> answer, type |-> "answer"])

answerUpvoted(c, questionId, answerId) ==
  emit(c, questionId, "answerUpdated", [answerId |-> answerId, type |-> "upvote"])

answerDownvoted(c, questionId, answerId) ==
  emit(c, questionId, "answerUpdated", [answerId |-> answerId, type |-> "downvote"])

answerFeatured(c, questionId, answerId) ==
  emit(c, questionId, "answerFeatured", [answerId |-> answerId, type |-> "feature"])

----------------------------------------------------------------------------
(* Initial state: two questions, and one answer that u2 gave to q1 (its     *)
(* creation has credited u2 through the save hook); u2 is an administrator *)

InitDb ==
  /\ users = [u \in Users |->
       [reputation |-> IF u = "u2" THEN InitialReputation + answerSaveReputation
                       ELSE InitialReputation,
        badges |-> {}, following |-> {}, followers |-> {}, followingTopics |-> {},
        role |-> IF u = "u2" THEN "admin" ELSE "user"]]
  /\ topics = [t \in Topics |-> [followers |-> {}]]
  /\ questions = [q \in Questions |->
       questionSchema(IF q = "q1" THEN "u1" ELSE "u2")]
  /\ answers = [a \in {"a1"} |-> answerSchema("q1", "u2", FALSE)]
  /\ nAnswers = 1
  /\ reqs = [r \in Slots |-> Idle]
  /\ sockets = {}
  /\ rooms = [c \in Conns |-> {}]
  /\ inbox = [c \in Conns |-> {}]
  /\ published = {}

Init == InitDb /\ budget = MaxVoteReq

\* vote requests, one after the other
Next ==
  \E r \in SeqSlots :
    upvoteQuestion(r) \/ downvoteQuestion(r) \/ upvoteAnswer(r) \/ downvoteAnswer(r)

Spec == Init /\ [][Next]_vars

InitFollow == InitDb /\ budget = MaxFollowReq

\* follow and unfollow requests, overlapping
NextFollow ==
  \E r \in Slots :
    followUser(r) \/ unfollowUser(r) \/ followTopic(r) \/ unfollowTopic(r)

SpecFollow == InitFollow /\ [][NextFollow]_vars

InitFeature == InitDb /\ budget = MaxFeatureReq

\* answer requests, one after the other
NextFeature ==
  \E r \in SeqSlots :
    createAnswer(r) \/ updateAnswer(r) \/ deleteAnswer(r) \/ featureAnswer(r)

SpecFeature == InitFeature /\ [][NextFeature]_vars

\* a second answer to q1, given by u1 (createAnswer has credited u1 through
\* the save hook), for the featureAnswer requests that overlap
InitFeatureConc ==
  /\ users = [u \in Users |->
       [reputation |-> InitialReputation + answerSaveReputation,
        badges |-> {}, following |-> {}, followers |-> {}, followingTopics |-> {},
        role |-> IF u = "u2" THEN "admin" ELSE "user"]]
  /\ topics = [t \in Topics |-> [followers |-> {}]]
  /\ questions = [q \in Questions |->
       questionSchema(IF q = "q1" THEN "u1" ELSE "u2")]
  /\ answers = [a \in {"a1", "a2"} |->
       answerSchema("q1", IF a = "a1" THEN "u2" ELSE "u1", FALSE)]
  /\ nAnswers = 2
  /\ reqs = [r \in Slots |-> Idle]
  /\ sockets = {}
  /\ rooms = [c \in Conns |-> {}]
  /\ inbox = [c \in Conns |-> {}]
  /\ published = {}
  /\ budget = MaxConc

NextFeatureConc == \E r \in Slots : featureAnswer(r)

SpecFeatureConc == InitFeatureConc /\ [][NextFeatureConc]_vars

\* vote requests that overlap
NextVoteConc ==
  \E r \in Slots :
    upvoteQuestion(r) \/ downvoteQuestion(r) \/ upvoteAnswer(r) \/ downvoteAnswer(r)

SpecVoteConc == Init /\ [][NextVoteConc]_vars

\* vote requests, one after the other, that may stop at any await
NextVoteFail ==
  \E r \in SeqSlots :
    \/ upvoteQuestion(r) \/ downvoteQuestion(r)
    \/ upvoteAnswer(r) \/ downvoteAnswer(r)
    \/ catchAsync(r)

SpecVoteFail == Init /\ [][NextVoteFail]_vars

\* vote requests and updates of questions and answers, one after the other
NextUpdate ==
  \E r \in SeqSlots :
    \/ upvoteQuestion(r) \/ downvoteQuestion(r)
    \/ upvoteAnswer(r) \/ downvoteAnswer(r)
    \/ updateQuestion(r) \/ updateAnswer(r)

SpecUpdate == Init /\ [][NextUpdate]_vars

\* the requests that are neither votes nor featureAnswer, one after the
\* other
NextOther ==
  \E r \in SeqSlots :
    \/ createAnswer(r) \/ updateMe(r) \/ getQuestion(r)
    \/ followUser(r) \/ unfollowUser(r)
    \/ followTopic(r) \/ unfollowTopic(r)

SpecOther == InitFeature /\ [][NextOther]_vars

\* follow and unfollow requests, one after the other
NextFollowSeq ==
  \E r \in SeqSlots :
    followUser(r) \/ unfollowUser(r) \/ followTopic(r) \/ unfollowTopic(r)

SpecFollowSeq == InitFollow /\ [][NextFollowSeq]_vars

\* follow and unfollow requests, one after the other, that may stop at any
\* await
NextFollowFail ==
  \E r \in SeqSlots :
    \/ followUser(r) \/ unfollowUser(r)
    \/ followTopic(r) \/ unfollowTopic(r)
    \/ catchAsync(r)

SpecFollowFail == InitFollow /\ [][NextFollowFail]_vars

InitSocket == InitDb /\ budget = 0

\* the clients of the socket server: the payload of a notification is the
\* client's, the server relays it as it is
NextSocket ==
  \E c \in Conns :
    \/ connection(c)
    \/ disconnect(c)
    \/ \E q \in Questions : joinQuestion(c, q) \/ leaveQuestion(c, q)
    \/ \E q \in Questions, a \in {"a1"} :
         \/ newAnswer(c, q, a)
         \/ answerUpvoted(c, q, a)
         \/ answerDownvoted(c, q, a)
         \/ answerFeatured(c, q, a)

SpecSocket == InitSocket /\ [][NextSocket]_vars

\* both clients are connected and have joined the room of q1
InitVoteEvents ==
  /\ users = [u \in Users |->
       [reputation |-> IF u = "u2" THEN InitialReputation + answerSaveReputation
                       ELSE InitialReputation,
        badges |-> {}, following |-> {}, followers |-> {}, followingTopics |-> {},
        role |-> IF u = "u2" THEN "admin" ELSE "user"]]
  /\ topics = [t \in Topics |-> [followers |-> {}]]
  /\ questions = [q \in Questions |->
       questionSchema(IF q = "q1" THEN "u1" ELSE "u2")]
  /\ answers = [a \in {"a1"} |-> answerSchema("q1", "u2", FALSE)]
  /\ nAnswers = 1
  /\ reqs = [r \in Slots |-> Idle]
  /\ sockets = Conns
  /\ rooms = [c \in Conns |-> {"q1"}]
  /\ inbox = [c \in Conns |-> {}]
  /\ published = {}
  /\ budget = MaxVoteReq

\* votes on answers, one after the other, beside the clients' vote
\* notifications: the two reach the server on different channels
NextVoteEvents ==
  \/ \E r \in SeqSlots : upvoteAnswer(r) \/ downvoteAnswer(r)
  \/ \E c \in Conns, q \in Questions, a \in {"a1"} :
       answerUpvoted(c, q, a) \/ answerDownvoted(c, q, a)

SpecVoteEvents == InitVoteEvents /\ [][NextVoteEvents]_vars

----------------------------------------------------------------------------
(* Claims about votes, under Spec: requests run one after the other, so    *)
(* the state a request found when it arrived (its pre field) is the state  *)
(* just before its own writes                                             *)

\* the entity a vote request names, as it was when the request arrived
PreCollection(r) ==
  IF IsQuestionOp(reqs[r].op) THEN reqs[r].pre.questions ELSE reqs[r].pre.answers
PreExists(r) == reqs[r].target \in DOMAIN PreCollection(r)
PreEntity(r) == PreCollection(r)[reqs[r].target]
WasUp(r) == Some(PreEntity(r).upvotes, reqs[r].me.id)
WasDown(r) == Some(PreEntity(r).downvotes, reqs[r].me.id)
VoteDone(r, status) ==
  reqs[r].op \in VoteOps /\ reqs[r].pc = "done" /\ reqs[r].status = status
ReputationDelta(r, u) == users[u].reputation - reqs[r].pre.users[u].reputation

\* C1: no user id is at once in the upvotes and in the downvotes of the same
\* question or answer, in any state that vote requests run one after the
\* other can reach
C1_MutualExclusion ==
  /\ \A q \in Questions : \A u \in Users :
       ~(Some(questions[q].upvotes, u) /\ Some(questions[q].downvotes, u))
  /\ \A a \in DOMAIN answers : \A u \in Users :
       ~(Some(answers[a].upvotes, u) /\ Some(answers[a].downvotes, u))

\* a user who had downvoted an entity has upvoted it and is in its upvotes
C1_Witness ==
  \E r \in SeqSlots :
    /\ VoteDone(r, 200)
    /\ IsUpvote(reqs[r].op)
    /\ WasDown(r)
    /\ Some(Votable(reqs[r].op)[reqs[r].target].upvotes, reqs[r].me.id)

\* C2: a vote request by a user who is already in the set it asks for ends
\* with the conflict error without reaching a write: the vote arrays and
\* every user's reputation stay what they were when it arrived
C2_SingleVotePerDirection ==
  \A r \in SeqSlots :
    (/\ reqs[r].op \in VoteOps
     /\ reqs[r].pc # "idle"
     /\ PreExists(r)
     /\ IF IsUpvote(reqs[r].op) THEN WasUp(r) ELSE WasDown(r))
    => /\ reqs[r].pc \in {"find", "done"}
       /\ reqs[r].pc = "done" => reqs[r].status = 400
       /\ questions = reqs[r].pre.questions
       /\ answers = reqs[r].pre.answers
       /\ users = reqs[r].pre.users

\* a second upvote of an answer and a second downvote of a question have
\* been refused
C2_Witness ==
  \E r \in SeqSlots :
    /\ VoteDone(r, 400)
    /\ reqs[r].op \in {"upvoteAnswer", "downvoteQuestion"}
    /\ IF IsUpvote(reqs[r].op) THEN WasUp(r) ELSE WasDown(r)

\* the combined value of the delta table for a vote that reverses the
\* caller's earlier vote
ReversalTable(op) ==
  CASE op = "upvoteQuestion" -> 12
    [] op = "downvoteQuestion" -> -12
    [] op = "upvoteAnswer" -> 20
    [] op = "downvoteAnswer" -> -20

\* the value of the delta table for a vote from neutral
NeutralTable(op) ==
  CASE op = "upvoteQuestion" -> 10
    [] op = "downvoteQuestion" -> -2
    [] op = "upvoteAnswer" -> 15
    [] op = "downvoteAnswer" -> -5

\* C3: a successful vote that reverses the caller's earlier vote moves the
\* author's reputation by the combined table value (+12 / -12 for a
\* question, +20 / -20 for an answer) from its value just before the switch
C3_ReversalDelta ==
  \A r \in SeqSlots :
    (VoteDone(r, 200) /\ (IF IsUpvote(reqs[r].op) THEN WasDown(r) ELSE WasUp(r)))
    => ReputationDelta(r, PreEntity(r).author) = ReversalTable(reqs[r].op)

\* C4: a successful vote by a user who was in neither set moves the
\* author's reputation by exactly the table value, hooks included, and no
\* other user's reputation
C4_NeutralDelta ==
  \A r \in SeqSlots :
    (VoteDone(r, 200) /\ ~WasUp(r) /\ ~WasDown(r))
    => \A u \in Users :
         ReputationDelta(r, u) =
           IF u = PreEntity(r).author THEN NeutralTable(reqs[r].op) ELSE 0

----------------------------------------------------------------------------
(* Claims about the follow graph, under SpecFollow: requests overlap *)

\* C5: whenever no follow request is in progress, B is in A's following
\* exactly when A is in B's followers
C5_UserFollowSymmetry ==
  Quiescent =>
    \A a \in Users, b \in Users :
      (b \in users[a].following) <=> (a \in users[b].followers)

\* C6: whenever no follow request is in progress, T is in U's
\* followingTopics exactly when U is in T's followers
C6_TopicFollowSymmetry ==
  Quiescent =>
    \A u \in Users, t \in Topics :
      (t \in users[u].followingTopics) <=> (u \in topics[t].followers)

\* C7: every step of a followUser request whose caller is its target ends
\* the request with the error status 400 and changes no user's following or
\* followers (nor anything else stored), whatever else is going on
C7_SelfFollowRejected ==
  [][\A r \in Slots :
       (/\ reqs'[r] # reqs[r]
        /\ reqs'[r].op = "followUser"
        /\ reqs'[r].me.id = reqs'[r].target)
       => /\ reqs'[r].pc = "done"
          /\ reqs'[r].status = 400
          /\ users' = users
          /\ topics' = topics]_vars

\* a user who follows somebody has asked to follow themselves and was
\* refused
C7_Witness ==
  \E r \in Slots :
    /\ reqs[r].op = "followUser"
    /\ reqs[r].me.id = reqs[r].target
    /\ reqs[r].pc = "done"
    /\ reqs[r].status = 400
    /\ reqs[r].me.following # {}

----------------------------------------------------------------------------
(* Claims about the featured answer, under SpecFeature: requests run one   *)
(* after the other                                                         *)

FeatureDone(r) ==
  reqs[r].op = "featureAnswer" /\ reqs[r].pc = "done" /\ reqs[r].status = 200

\* the answers of question q that are marked featured
Featured(q) ==
  {a \in DOMAIN answers : answers[a].question = q /\ answers[a].isFeatured}

\* C8: when featureAnswer on A2 has completed, A2 is featured, it is the
\* featuredAnswer of its question Q, and no other answer of Q (an answer A1
\* featured before in particular) is featured
C8_FeaturedExclusivity ==
  \A r \in SeqSlots :
    FeatureDone(r) =>
      LET a2 == reqs[r].target
          q == reqs[r].doc.question
      IN /\ a2 \in DOMAIN answers
         /\ answers[a2].isFeatured
         /\ questions[q].featuredAnswer = a2
         /\ \A a1 \in DOMAIN answers :
              (a1 # a2 /\ answers[a1].question = q) => ~answers[a1].isFeatured

\* featureAnswer on A2 has completed for a question whose featured answer
\* was another answer A1, which is still an answer of that question
C8_Witness ==
  \E r \in SeqSlots :
    /\ FeatureDone(r)
    /\ LET a1 == reqs[r].pre.questions[reqs[r].doc.question].featuredAnswer
       IN /\ a1 \in DOMAIN answers
          /\ a1 # reqs[r].target
          /\ reqs[r].pre.answers[a1].isFeatured
          /\ answers[a1].question = reqs[r].doc.question

\* C9: whenever no request is in progress, a question has a featuredAnswer
\* exactly when exactly one of its existing answers is marked featured, and
\* that answer is the one featuredAnswer names
C9_FeaturedSlotConsistency ==
  Quiescent =>
    \A q \in Questions :
      /\ (questions[q].featuredAnswer # MissingId) <=> (Cardinality(Featured(q)) = 1)
      /\ questions[q].featuredAnswer # MissingId
           => Featured(q) = {questions[q].featuredAnswer}

\* C10: a successful featureAnswer on A raises the reputation of A's author
\* by exactly 50, hooks included, leaves the badge with that author, marks
\* the question answered, and leaves the reputation of the author of the
\* answer featured before alone
C10_FeatureCredit ==
  \A r \in SeqSlots :
    FeatureDone(r) =>
      LET author == reqs[r].doc.author
          q == reqs[r].doc.question
          before == reqs[r].pre.questions[q].featuredAnswer
      IN /\ ReputationDelta(r, author) = 50
         /\ "featured-answer" \in users[author].badges
         /\ questions[q].isAnswered
         /\ (before \in DOMAIN reqs[r].pre.answers
               /\ reqs[r].pre.answers[before].author # author)
              => ReputationDelta(r, reqs[r].pre.answers[before].author) = 0

\* the question of the answer a featureAnswer request names, as it was when
\* the request arrived
PreQuestion(r) == reqs[r].pre.questions[reqs[r].pre.answers[reqs[r].target].question]

\* the caller of request r was neither the author of that question nor an
\* administrator
Unauthorized(r) ==
  /\ reqs[r].op = "featureAnswer"
  /\ reqs[r].pc # "idle"
  /\ reqs[r].target \in DOMAIN reqs[r].pre.answers
  /\ PreQuestion(r).author # reqs[r].me.id
  /\ reqs[r].me.role # "admin"

\* C11: featureAnswer by a caller who is neither the author of the answer's
\* question nor an administrator ends with 401 without reaching a write: no
\* answer, no question and no user (reputation, badges) has changed
C11_FeatureAuthorization ==
  \A r \in SeqSlots :
    Unauthorized(r) =>
      /\ reqs[r].pc \in {"find", "done"}
      /\ reqs[r].pc = "done" => reqs[r].status = 401
      /\ answers = reqs[r].pre.answers
      /\ questions = reqs[r].pre.questions
      /\ users = reqs[r].pre.users

\* a user who is no administrator has been refused on an answer to a
\* question somebody else asked
C11_Witness ==
  \E r \in SeqSlots :
    Unauthorized(r) /\ reqs[r].pc = "done" /\ reqs[r].status = 401

----------------------------------------------------------------------------
(* Socket rooms *)

\* C12: a connection receives an event only when it is, at the moment the
\* event is published, connected and a member of the room the event is
\* published to: an event for one question never reaches a connection that
\* has joined only another question.
C12_RoomIsolation ==
  [][\A c \in Conns :
       \A ev \in inbox'[c] \ inbox[c] :
         c \in sockets /\ ev.room \in rooms[c]]_vars

\* a connection in the room of q1 only has received an event of q1, and an
\* event published to q2 has not reached it
C12_Witness ==
  \E c \in Conns :
    /\ rooms[c] = {"q1"}
    /\ \E ev \in inbox[c] : ev.room = "q1"
    /\ \E ev \in published :
         ev.room = "q2" /\ ev.from # c /\ ev \notin inbox[c]

\* C13: publishing to a room delivers the event to every connection that is
\* in the room, and leaves the originating connection out only when the
\* event is answerAdded: the sender of an answerUpdated or an answerFeatured
\* event, when it is in the room, receives the event too.
C13_ExcludeSelfOnlyAnswerAdded ==
  [][\A ev \in published' \ published :
       \A c \in sockets :
         ev.room \in rooms[c] =>
           (ev \in inbox'[c] <=> ~(c = ev.from /\ ev.name = "answerAdded"))]_vars

----------------------------------------------------------------------------
(* Follow requests, one at a time *)

IsUserFollowOp(op) == op \in {"followUser", "unfollowUser"}
IsTopicFollowOp(op) == op \in {"followTopic", "unfollowTopic"}
IsFollow(op) == op \in {"followUser", "followTopic"}

\* the target of the request existed when the request arrived
FollowTargetExists(r) ==
  \/ IsUserFollowOp(reqs[r].op) /\ reqs[r].target \in Users
  \/ IsTopicFollowOp(reqs[r].op) /\ reqs[r].target \in Topics

\* the caller followed the target when the request arrived
Followed(r) ==
  LET me == reqs[r].pre.users[reqs[r].me.id] IN
  IF IsUserFollowOp(reqs[r].op) THEN reqs[r].target \in me.following
  ELSE reqs[r].target \in me.followingTopics

\* a follow of an existing relation, or an unfollow of an absent one
FollowConflict(r) ==
  /\ reqs[r].pc # "idle"
  /\ FollowTargetExists(r)
  /\ IsFollow(reqs[r].op) <=> Followed(r)

\* C14: a follow request for a relation that already exists and an unfollow
\* request for a relation that is absent (the target exists) end with the
\* conflict status 400, and no user's following, followers or followingTopics
\* and no topic's followers changes.
C14_FollowConflict ==
  \A r \in SeqSlots :
    FollowConflict(r) =>
      /\ reqs[r].pc \in {"find", "done"}
      /\ reqs[r].pc = "done" => reqs[r].status = 400
      /\ users = reqs[r].pre.users
      /\ topics = reqs[r].pre.topics

\* a repeated followUser has been refused
C14_Witness ==
  \E r \in SeqSlots :
    /\ FollowConflict(r)
    /\ reqs[r].op = "followUser"
    /\ reqs[r].pc = "done"
    /\ reqs[r].status = 400

----------------------------------------------------------------------------
(* Overlapping vote requests *)

Count(arr, id) == Cardinality({i \in 1..Len(arr) : arr[i] = id})

Votables == [q \in Questions |-> questions[q]] @@ answers

\* two finished requests of the same kind, by the same user on the same
\* entity, that both loaded the same version of the document
SameVote(r1, r2) ==
  /\ r1 # r2
  /\ reqs[r1].pc = "done" /\ reqs[r2].pc = "done"
  /\ reqs[r1].op \in VoteOps /\ reqs[r1].op = reqs[r2].op
  /\ reqs[r1].me.id = reqs[r2].me.id
  /\ reqs[r1].target = reqs[r2].target
  /\ reqs[r1].doc = reqs[r2].doc

\* C15: overlapping vote requests of one user on one question or answer end
\* as some serial order of them would: when no request is in progress the
\* user occurs at most once across the upvotes and downvotes of the entity,
\* and of two overlapping requests in the same direction at most one has
\* succeeded.
C15_VoteLinearizability ==
  Quiescent =>
    /\ \A e \in DOMAIN Votables, u \in Users :
         Count(Votables[e].upvotes, u) + Count(Votables[e].downvotes, u) <= 1
    /\ \A r1, r2 \in Slots :
         SameVote(r1, r2) => ~(reqs[r1].status = 200 /\ reqs[r2].status = 200)

----------------------------------------------------------------------------
(* Overlapping featureAnswer requests *)

\* two featureAnswer requests have succeeded on different answers of the
\* same question
FeaturedBoth(r1, r2) ==
  /\ FeatureDone(r1) /\ FeatureDone(r2)
  /\ reqs[r1].target # reqs[r2].target
  /\ reqs[r1].doc.question = reqs[r2].doc.question

\* C16: once overlapping featureAnswer requests on different answers of one
\* question have all completed, at most one answer of the question is
\* featured, and it is the question's featuredAnswer.
C16_OneFeaturedUnderConcurrency ==
  Quiescent =>
    \A r1, r2 \in Slots :
      FeaturedBoth(r1, r2) =>
        LET q == reqs[r1].doc.question IN
        /\ Cardinality(Featured(q)) <= 1
        /\ \A a \in Featured(q) : questions[q].featuredAnswer = a

----------------------------------------------------------------------------
(* Overlapping follow requests on one pair *)

\* two finished follow or unfollow requests of the same caller on the same
\* target (a user, or a topic), both started from the same req.user
SamePair(r1, r2) ==
  /\ r1 # r2
  /\ reqs[r1].pc = "done" /\ reqs[r2].pc = "done"
  /\ \/ IsUserFollowOp(reqs[r1].op) /\ IsUserFollowOp(reqs[r2].op)
     \/ IsTopicFollowOp(reqs[r1].op) /\ IsTopicFollowOp(reqs[r2].op)
  /\ FollowTargetExists(r1)
  /\ reqs[r1].target = reqs[r2].target
  /\ reqs[r1].me = reqs[r2].me

\* the two mirrored sets agree on the relation of the request's pair
PairMirrored(r) ==
  LET s == reqs[r].me.id
      t == reqs[r].target
  IN IF IsUserFollowOp(reqs[r].op)
       THEN (t \in users[s].following) <=> (s \in users[t].followers)
       ELSE (t \in users[s].followingTopics) <=> (s \in topics[t].followers)

\* C17: two overlapping follow requests (or a follow and an unfollow) on
\* one (subject, target) pair take effect as if run one after the other:
\* once both have completed, two follows have not both succeeded, and the
\* two mirrored sets agree on whether the relation exists.
C17_FollowSerialization ==
  Quiescent =>
    \A r1, r2 \in Slots :
      SamePair(r1, r2) =>
        /\ (IsFollow(reqs[r1].op) /\ IsFollow(reqs[r2].op))
             => ~(reqs[r1].status = 200 /\ reqs[r2].status = 200)
        /\ PairMirrored(r1)

----------------------------------------------------------------------------
(* Requests that stop between their writes *)

\* the vote arrays of the request's entity are not what they were when the
\* request arrived
VoteRecorded(r) ==
  LET now == Votable(reqs[r].op)[reqs[r].target] IN
  \/ now.upvotes # PreEntity(r).upvotes
  \/ now.downvotes # PreEntity(r).downvotes

\* the handler's increment has reached the author's reputation (with, for
\* an answer, what the save hook adds)
VoteCredited(r) ==
  ReputationDelta(r, PreEntity(r).author) \in
    {VoteInc(reqs[r].op), VoteInc(reqs[r].op) + answerSaveReputation}

\* C18: a vote request that has ended, whether it completed or stopped at
\* one of its awaits, has either recorded the vote and applied the author's
\* reputation delta, or done neither.
C18_VoteAtomicity ==
  \A r \in SeqSlots :
    (reqs[r].pc = "done" /\ reqs[r].op \in VoteOps /\ PreExists(r)) =>
      /\ VoteRecorded(r) => VoteCredited(r)
      /\ ~VoteRecorded(r) => ReputationDelta(r, PreEntity(r).author) = 0

\* the caller's side of the relation (following, followingTopics) is not
\* what it was when the request arrived
SubjectSideChanged(r) ==
  LET s == reqs[r].me.id
      t == reqs[r].target
  IN IF IsUserFollowOp(reqs[r].op)
       THEN (t \in users[s].following) # (t \in reqs[r].pre.users[s].following)
       ELSE (t \in users[s].followingTopics)
              # (t \in reqs[r].pre.users[s].followingTopics)

\* the target's side of the relation (followers) is not what it was when
\* the request arrived
TargetSideChanged(r) ==
  LET s == reqs[r].me.id
      t == reqs[r].target
  IN IF IsUserFollowOp(reqs[r].op)
       THEN (s \in users[t].followers) # (s \in reqs[r].pre.users[t].followers)
       ELSE (s \in topics[t].followers) # (s \in reqs[r].pre.topics[t].followers)

\* C19: a follow or unfollow request that has ended, whether it completed
\* or stopped at one of its awaits, has updated both mirrored sets or
\* neither of them.
C19_FollowAtomicity ==
  \A r \in SeqSlots :
    (reqs[r].pc = "done" /\ FollowTargetExists(r)) =>
      (SubjectSideChanged(r) <=> TargetSideChanged(r))

----------------------------------------------------------------------------
(* Votes and their notifications *)

\* the answerUpdated events published about answer a
VoteEvents(a) ==
  {ev \in published : ev.name = "answerUpdated" /\ ev.payload.answerId = a}

\* C20: every successful vote on an answer is followed by an answerUpdated
\* event, with the answer's id and the direction, published to the room of
\* the answer's question, and no such event is published for a vote that
\* failed or never happened: the events published about an answer go to the
\* room of its question and are no more than the votes saved on it (each
\* saved vote adds one to the document's version), and a vote request that
\* has answered 200 has its event published.
C20_VoteEventEmission ==
  /\ \A a \in DOMAIN answers :
       /\ \A ev \in VoteEvents(a) : ev.room = answers[a].question
       /\ Cardinality(VoteEvents(a)) <= answers[a].v
  /\ \A r \in SeqSlots :
       (VoteDone(r, 200) /\ ~IsQuestionOp(reqs[r].op)) =>
         \E ev \in VoteEvents(reqs[r].target) :
           /\ ev.room = reqs[r].doc.question
           /\ ev.payload.type = (IF IsUpvote(reqs[r].op) THEN "upvote" ELSE "downvote")

----------------------------------------------------------------------------
(* What the update handlers leave alone *)

UpdateOps == {"updateQuestion", "updateAnswer"}

\* an update request that has ended, on a question or an answer that
\* existed when the request arrived
UpdateDone(r) ==
  /\ reqs[r].op \in UpdateOps
  /\ reqs[r].pc = "done"
  /\ reqs[r].target \in
       (IF reqs[r].op = "updateQuestion" THEN DOMAIN reqs[r].pre.questions
        ELSE DOMAIN reqs[r].pre.answers)

\* C21: updateQuestion and updateAnswer, whatever the request body holds,
\* leave the upvotes and the downvotes of their question or answer, the
\* answer's isFeatured and the question's featuredAnswer as they were when
\* the request arrived.
C21_VoteSetsFrame ==
  \A r \in SeqSlots :
    UpdateDone(r) =>
      IF reqs[r].op = "updateQuestion"
        THEN LET now == questions[reqs[r].target]
                 was == reqs[r].pre.questions[reqs[r].target]
             IN /\ now.upvotes = was.upvotes
                /\ now.downvotes = was.downvotes
                /\ now.featuredAnswer = was.featuredAnswer
        ELSE LET now == answers[reqs[r].target]
                 was == reqs[r].pre.answers[reqs[r].target]
             IN /\ now.upvotes = was.upvotes
                /\ now.downvotes = was.downvotes
                /\ now.isFeatured = was.isFeatured

----------------------------------------------------------------------------
(* What leaves the reputation alone *)

OtherOps ==
  {"createAnswer", "updateMe", "getQuestion",
   "followUser", "unfollowUser", "followTopic", "unfollowTopic"}

\* C22: a request that is neither a vote nor a featureAnswer (createAnswer,
\* updateMe, getQuestion, a follow or an unfollow of a user or a topic)
\* leaves the reputation of every user as it was when the request arrived.
C22_ReputationFrame ==
  \A r \in SeqSlots :
    reqs[r].op \in OtherOps =>
      \A u \in Users :
        users[u].reputation = reqs[r].pre.users[u].reputation

----------------------------------------------------------------------------
(* Featuring the featured answer again *)

\* a featureAnswer request by a caller allowed to feature, now ended, on an
\* answer that was the featured answer of its question when the request
\* arrived
ReFeature(r) ==
  /\ reqs[r].op = "featureAnswer"
  /\ reqs[r].pc = "done"
  /\ reqs[r].target \in DOMAIN reqs[r].pre.answers
  /\ reqs[r].pre.answers[reqs[r].target].isFeatured
  /\ PreQuestion(r).featuredAnswer = reqs[r].target
  /\ ~Unauthorized(r)

\* C23: featureAnswer on the answer that is already the featured answer of
\* its question answers 200 and leaves isFeatured, the question's
\* featuredAnswer and isAnswered and the author's badges as they were, and
\* it credits the author's reputation again, by at least the 50 of a first
\* featuring, on every such call.
C23_ReFeatureCredits ==
  \A r \in SeqSlots :
    ReFeature(r) =>
      LET a == reqs[r].target
          was == reqs[r].pre.answers[a]
      IN /\ reqs[r].status = 200
         /\ a \in DOMAIN answers
         /\ answers[a].isFeatured = was.isFeatured
         /\ questions[was.question].featuredAnswer = PreQuestion(r).featuredAnswer
         /\ questions[was.question].isAnswered = PreQuestion(r).isAnswered
         /\ users[was.author].badges = reqs[r].pre.users[was.author].badges
         /\ ReputationDelta(r, was.author) >= featureAnswerInc

\* the featured answer has been featured again for the second time: its
\* author had been credited for two featurings when the request arrived
C23_Witness ==
  \E r \in SeqSlots :
    /\ ReFeature(r)
    /\ LET author == reqs[r].pre.answers[reqs[r].target].author
       IN /\ reqs[r].pre.users[author].reputation
               >= InitialReputation + 2 * featureAnswerInc
          /\ users[author].reputation >= InitialReputation + 3 * featureAnswerInc

====
